---- MODULE Spec2Model ----
(***************************************************************************)
(* A model of avlUintLib.c, the AVL tree library keyed by an unsigned      *)
(* integer.  Nodes are records owned by the caller; the library only       *)
(* links them through their left, right and height fields and through the  *)
(* root slot of the tree handle.  Pointers to node pointers are modelled   *)
(* as slots: the root slot, or the left or right field of a node.          *)
(***************************************************************************)
EXTENDS Integers, Sequences, FiniteSets, TLC

(* ------------------------------ bounds -------------------------------- *)

\* Largest representable key (UINT_MAX in the source, scaled down).
KeyMax == 4

(* ----------------------------- constants ------------------------------ *)

\* The source sets AVLU_MAX_HEIGHT to 28, and to 32 when _WRS_CONFIG_LP64 is
\* defined.  Both values are scaled down: with MaxHeight32 the capacity tests
\* of the descents are met by trees of KeyMax + 1 nodes, with MaxHeightLP64
\* no tree of that size meets them.
MaxHeight32 == 3

MaxHeightLP64 == 4

\* The largest invocation number at which a callback routine of a walk is
\* made to return ERROR.
MaxFail == 3

NULL == 0

OK == 0

ERROR == -1

Key == 0..KeyMax

\* The node records the callers own: one for every key, and two more that
\* carry the keys 0 and 1 again.
Node == 1..(KeyMax + 3)

\* The key the caller has set in record n.
KeyOf(n) == (n - 1) % (KeyMax + 1)

NodeOrNull == Node \cup {NULL}

(* ------------------------------- state -------------------------------- *)

VARIABLES
    lp64,      \* whether the library was built with _WRS_CONFIG_LP64
    root,      \* the AVLU_TREE root slot the handle points to
    key,       \* key[n]: sorting key of node n, set by the caller
    left,      \* left[n]: left child pointer of node n
    right,     \* right[n]: right child pointer of node n
    height,    \* height[n]: stored height of node n
    call,      \* the last library call and its arguments
    ret,       \* the value that call returned
    branch,    \* the return statement that call left through
    inserted,  \* round trip: the keys inserted so far
    deleted,   \* round trip: the keys avlUintDelete was called with so far
    callbacks, \* the callback routines the last call was given
    visits     \* the callback invocations the last call made, in order

vars == <<lp64, root, key, left, right, height, call, ret, branch,
          inserted, deleted, callbacks, visits>>

AVLU_MAX_HEIGHT == IF lp64 THEN MaxHeightLP64 ELSE MaxHeight32

\* The mutable memory the library works on, as one value.
Mem == [root |-> root, left |-> left, right |-> right, height |-> height]

(* ------------------------------- slots -------------------------------- *)

\* &avlTree: the address of the root pointer.
RootSlot == [n |-> NULL, f |-> "root"]

\* A null AVLU_TREE * handle.
NullHandle == [n |-> NULL, f |-> "null"]

\* &(pNode->left)
LeftSlot(pNode) == [n |-> pNode, f |-> "left"]

\* &(pNode->right)
RightSlot(pNode) == [n |-> pNode, f |-> "right"]

\* *ppNode
Load(m, ppNode) ==
    CASE ppNode.f = "root"  -> m.root
      [] ppNode.f = "left"  -> m.left[ppNode.n]
      [] ppNode.f = "right" -> m.right[ppNode.n]

\* *ppNode = v
Store(m, ppNode, v) ==
    CASE ppNode.f = "root"  -> [m EXCEPT !.root = v]
      [] ppNode.f = "left"  -> [m EXCEPT !.left[ppNode.n] = v]
      [] ppNode.f = "right" -> [m EXCEPT !.right[ppNode.n] = v]

SetLeft(m, pNode, v) == [m EXCEPT !.left[pNode] = v]

SetRight(m, pNode, v) == [m EXCEPT !.right[pNode] = v]

SetHeight(m, pNode, v) == [m EXCEPT !.height[pNode] = v]

\* (p != NULL) ? p->height : 0
HeightOf(m, p) == IF p # NULL THEN m.height[p] ELSE 0

\* The ancestor[AVLU_MAX_HEIGHT] array before anything is stored in it.
NoSlot == [n |-> NULL, f |-> "none"]

EmptyAncestor == [i \in 0..(AVLU_MAX_HEIGHT - 1) |-> NoSlot]

(* ----------------------------- rebalance ------------------------------ *)

\* Mutant of RotateLeftLeft: the new subtree root gets a height one too
\* large.
RotateLeftLeftHigh(m, ppNode, pNode, leftp, leftrightp, leftrighth) ==
    LET m1 == SetLeft(m, pNode, leftrightp)
        m2 == SetHeight(m1, pNode, leftrighth + 1)
        m3 == SetRight(m2, leftp, pNode)
        m4 == SetHeight(m3, leftp, leftrighth + 3)
    IN  Store(m4, ppNode, leftp)

\* Left-left case: single rotation to the right.
RotateLeftLeft(m, ppNode, pNode, leftp, leftrightp, leftrighth) ==
    LET m1 == SetLeft(m, pNode, leftrightp)
        m2 == SetHeight(m1, pNode, leftrighth + 1)
        m3 == SetRight(m2, leftp, pNode)
        m4 == SetHeight(m3, leftp, leftrighth + 2)
    IN  Store(m4, ppNode, leftp)

\* Left-right case: double rotation.
RotateLeftRight(m, ppNode, pNode, leftp, leftrightp, leftrighth) ==
    LET m1 == SetRight(m, leftp, m.left[leftrightp])
        m2 == SetHeight(m1, leftp, leftrighth)
        m3 == SetLeft(m2, pNode, m2.right[leftrightp])
        m4 == SetHeight(m3, pNode, leftrighth)
        m5 == SetLeft(m4, leftrightp, leftp)
        m6 == SetRight(m5, leftrightp, pNode)
        m7 == SetHeight(m6, leftrightp, leftrighth + 1)
    IN  Store(m7, ppNode, leftrightp)

\* Mutant of RotateRightRight: the slot above keeps pointing at the old
\* subtree root.
RotateRightRightNoReroot(m, ppNode, pNode, rightp, rightleftp, rightlefth) ==
    LET m1 == SetRight(m, pNode, rightleftp)
        m2 == SetHeight(m1, pNode, rightlefth + 1)
        m3 == SetLeft(m2, rightp, pNode)
    IN  SetHeight(m3, rightp, rightlefth + 2)

\* Mutant of RotateRightRight: the new subtree root gets the height of the
\* old one.
RotateRightRightLow(m, ppNode, pNode, rightp, rightleftp, rightlefth) ==
    LET m1 == SetRight(m, pNode, rightleftp)
        m2 == SetHeight(m1, pNode, rightlefth + 1)
        m3 == SetLeft(m2, rightp, pNode)
        m4 == SetHeight(m3, rightp, rightlefth + 1)
    IN  Store(m4, ppNode, rightp)

\* Right-right case: single rotation to the left.
RotateRightRight(m, ppNode, pNode, rightp, rightleftp, rightlefth) ==
    LET m1 == SetRight(m, pNode, rightleftp)
        m2 == SetHeight(m1, pNode, rightlefth + 1)
        m3 == SetLeft(m2, rightp, pNode)
        m4 == SetHeight(m3, rightp, rightlefth + 2)
    IN  Store(m4, ppNode, rightp)

\* Right-left case: double rotation.
RotateRightLeft(m, ppNode, pNode, rightp, rightleftp, rightlefth) ==
    LET m1 == SetRight(m, pNode, m.left[rightleftp])
        m2 == SetHeight(m1, pNode, rightlefth)
        m3 == SetLeft(m2, rightp, m2.right[rightleftp])
        m4 == SetHeight(m3, rightp, rightlefth)
        m5 == SetLeft(m4, rightleftp, pNode)
        m6 == SetRight(m5, rightleftp, rightp)
        m7 == SetHeight(m6, rightleftp, rightlefth + 1)
    IN  Store(m7, ppNode, rightleftp)

\* Mutant of RebalanceLeftHeavy: the left-right case is rotated like the
\* left-left case.
RebalanceLeftHeavySingle(m, ppNode, pNode, leftp) ==
    LET leftrightp == m.right[leftp]
        leftrighth == HeightOf(m, leftrightp)
    IN  RotateLeftLeft(m, ppNode, pNode, leftp, leftrightp, leftrighth)

\* The subtree is too high on the left side.
RebalanceLeftHeavy(m, ppNode, pNode, leftp) ==
    LET leftleftp  == m.left[leftp]
        leftrightp == m.right[leftp]
        leftrighth == HeightOf(m, leftrightp)
    IN  IF leftleftp # NULL /\ m.height[leftleftp] >= leftrighth
        THEN RotateLeftLeft(m, ppNode, pNode, leftp, leftrightp, leftrighth)
        ELSE RotateLeftRight(m, ppNode, pNode, leftp, leftrightp, leftrighth)

\* The subtree is too high on the right side.
RebalanceRightHeavy(m, ppNode, pNode, rightp) ==
    LET rightleftp  == m.left[rightp]
        rightlefth  == HeightOf(m, rightleftp)
        rightrightp == m.right[rightp]
    IN  IF rightrightp # NULL /\ m.height[rightrightp] >= rightlefth
        THEN RotateRightRight(m, ppNode, pNode, rightp, rightleftp, rightlefth)
        ELSE RotateRightLeft(m, ppNode, pNode, rightp, rightleftp, rightlefth)

\* Mutant of NewHeight: the height is one too large.
NewHeightTooLarge(lefth, righth) == (IF righth > lefth THEN righth ELSE lefth) + 2

\* height = ((righth > lefth) ? righth : lefth) + 1
NewHeight(lefth, righth) == (IF righth > lefth THEN righth ELSE lefth) + 1

RECURSIVE avlUintRebalance(_, _, _)
avlUintRebalance(m, ancestors, count) ==
    IF ~(count > 0)
    THEN m
    ELSE LET c      == count - 1
             ppNode == ancestors[c]
             pNode  == Load(m, ppNode)
             leftp  == m.left[pNode]
             lefth  == HeightOf(m, leftp)
             rightp == m.right[pNode]
             righth == HeightOf(m, rightp)
         IN  IF righth - lefth < -1
             THEN avlUintRebalance(
                      RebalanceLeftHeavy(m, ppNode, pNode, leftp), ancestors, c)
             ELSE IF righth - lefth > 1
             THEN avlUintRebalance(
                      RebalanceRightHeavy(m, ppNode, pNode, rightp), ancestors, c)
             ELSE LET h == NewHeight(lefth, righth)
                  IN  IF m.height[pNode] = h
                      THEN m
                      ELSE avlUintRebalance(SetHeight(m, pNode, h), ancestors, c)

\* One record per iteration of the loop of avlUintRebalance, in order.
\* diff: righth - lefth.  kind: the branch taken, "LL", "LR", "RR", "RL" for
\* the rotations, "height" for a height update, "stop" for the early exit.
\* deref: the pointers the iteration dereferences; the run ends at an
\* iteration that dereferences NULL.  mem: the memory after the iteration.
RECURSIVE RebalanceSteps(_, _, _)
RebalanceSteps(m, ancestors, count) ==
    IF ~(count > 0)
    THEN <<>>
    ELSE LET c      == count - 1
             ppNode == ancestors[c]
             pNode  == Load(m, ppNode)
         IN  IF pNode = NULL
             THEN <<[ppNode |-> ppNode, pNode |-> pNode, diff |-> 0,
                     kind |-> "none", deref |-> {pNode}, mem |-> m]>>
             ELSE
         LET leftp  == m.left[pNode]
             lefth  == HeightOf(m, leftp)
             rightp == m.right[pNode]
             righth == HeightOf(m, rightp)
             diff   == righth - lefth
             heavy  == IF diff < -1 THEN leftp ELSE rightp
             inner  == IF diff < -1 THEN m.right[leftp] ELSE m.left[rightp]
             outer  == IF diff < -1 THEN m.left[leftp] ELSE m.right[rightp]
             single == outer # NULL /\ m.height[outer] >= HeightOf(m, inner)
             kind   == IF diff < -1 THEN (IF single THEN "LL" ELSE "LR")
                       ELSE IF diff > 1 THEN (IF single THEN "RR" ELSE "RL")
                       ELSE IF m.height[pNode] = NewHeight(lefth, righth)
                       THEN "stop" ELSE "height"
             deref  == {pNode} \cup {p \in {leftp, rightp} : p # NULL}
                       \cup (IF kind \in {"LL", "LR", "RR", "RL"}
                             THEN {heavy} \cup {p \in {inner, outer} : p # NULL}
                             ELSE {})
                       \cup (IF kind \in {"LR", "RL"} THEN {inner} ELSE {})
             step(m2) == [ppNode |-> ppNode, pNode |-> pNode, diff |-> diff,
                          kind |-> kind, deref |-> deref, mem |-> m2]
         IN  IF NULL \in deref
             THEN <<step(m)>>
             ELSE IF diff < -1
             THEN LET m2 == RebalanceLeftHeavy(m, ppNode, pNode, leftp)
                  IN  <<step(m2)>> \o RebalanceSteps(m2, ancestors, c)
             ELSE IF diff > 1
             THEN LET m2 == RebalanceRightHeavy(m, ppNode, pNode, rightp)
                  IN  <<step(m2)>> \o RebalanceSteps(m2, ancestors, c)
             ELSE IF kind = "stop"
             THEN <<step(m)>>
             ELSE LET m2 == SetHeight(m, pNode, NewHeight(lefth, righth))
                  IN  <<step(m2)>> \o RebalanceSteps(m2, ancestors, c)

\* The rotations avlUintRebalance performs on its way up, in order: "LL" and
\* "RR" are the single rotations, "LR" and "RL" the double ones.
RECURSIVE Rotations(_, _, _)
Rotations(m, ancestors, count) ==
    IF ~(count > 0)
    THEN <<>>
    ELSE LET c      == count - 1
             ppNode == ancestors[c]
             pNode  == Load(m, ppNode)
             leftp  == m.left[pNode]
             lefth  == HeightOf(m, leftp)
             rightp == m.right[pNode]
             righth == HeightOf(m, rightp)
         IN  IF righth - lefth < -1
             THEN <<IF /\ m.left[leftp] # NULL
                       /\ m.height[m.left[leftp]] >= HeightOf(m, m.right[leftp])
                    THEN "LL" ELSE "LR">>
                  \o Rotations(RebalanceLeftHeavy(m, ppNode, pNode, leftp),
                               ancestors, c)
             ELSE IF righth - lefth > 1
             THEN <<IF /\ m.right[rightp] # NULL
                       /\ m.height[m.right[rightp]] >= HeightOf(m, m.left[rightp])
                    THEN "RR" ELSE "RL">>
                  \o Rotations(RebalanceRightHeavy(m, ppNode, pNode, rightp),
                               ancestors, c)
             ELSE LET h == NewHeight(lefth, righth)
                  IN  IF m.height[pNode] = h
                      THEN <<>>
                      ELSE Rotations(SetHeight(m, pNode, h), ancestors, c)

(* ------------------------------- insert ------------------------------- *)

\* Mutant of ChildSlot: the comparison is reversed.
ChildSlotReversed(k, pNode) ==
    IF k > key[pNode] THEN LeftSlot(pNode) ELSE RightSlot(pNode)

\* The slot the descent of insert and delete continues with below pNode.
ChildSlot(k, pNode) ==
    IF k < key[pNode] THEN LeftSlot(pNode) ELSE RightSlot(pNode)

\* Mutant of InsertDescend: the descent does not test for an equal key and
\* continues to the right of a node that carries it.
RECURSIVE InsertDescendNoEqual(_, _, _, _, _)
InsertDescendNoEqual(m, k, ppNode, ancestor, ancestorCount) ==
    IF ~(ancestorCount < AVLU_MAX_HEIGHT)
    THEN [dup |-> FALSE, ppNode |-> ppNode, ancestor |-> ancestor,
          ancestorCount |-> ancestorCount]
    ELSE LET pNode == Load(m, ppNode)
         IN  IF pNode = NULL
             THEN [dup |-> FALSE, ppNode |-> ppNode, ancestor |-> ancestor,
                   ancestorCount |-> ancestorCount]
             ELSE InsertDescendNoEqual(m, k, ChildSlot(k, pNode),
                      [ancestor EXCEPT ![ancestorCount] = ppNode],
                      ancestorCount + 1)

\* The descent loop of avlUintInsert.  dup: the key was met on the path.
RECURSIVE InsertDescend(_, _, _, _, _)
InsertDescend(m, k, ppNode, ancestor, ancestorCount) ==
    IF ~(ancestorCount < AVLU_MAX_HEIGHT)
    THEN [dup |-> FALSE, ppNode |-> ppNode, ancestor |-> ancestor,
          ancestorCount |-> ancestorCount]
    ELSE LET pNode == Load(m, ppNode)
         IN  IF pNode = NULL
             THEN [dup |-> FALSE, ppNode |-> ppNode, ancestor |-> ancestor,
                   ancestorCount |-> ancestorCount]
             ELSE LET a == [ancestor EXCEPT ![ancestorCount] = ppNode]
                      n == ancestorCount + 1
                  IN  IF k = key[pNode]
                      THEN [dup |-> TRUE, ppNode |-> ppNode, ancestor |-> a,
                            ancestorCount |-> n]
                      ELSE InsertDescend(m, k, ChildSlot(k, pNode), a, n)

\* Mutant of AttachLeaf: the node is initialised but not stored in the slot.
AttachLeafUnlinked(m, ppNode, pNewNode) ==
    SetHeight(SetRight(SetLeft(m, pNewNode, NULL), pNewNode, NULL), pNewNode, 1)

\* Initialise pNewNode, add it as a new leaf at ppNode.
AttachLeaf(m, ppNode, pNewNode) ==
    LET m1 == SetLeft(m, pNewNode, NULL)
        m2 == SetRight(m1, pNewNode, NULL)
        m3 == SetHeight(m2, pNewNode, 1)
    IN  Store(m3, ppNode, pNewNode)

\* Mutant of avlUintInsert: the test of ancestorCount after the descent is
\* left out.
avlUintInsertNoCapacityTest(m, pRoot, pNewNode) ==
    IF pNewNode = NULL \/ pRoot = NullHandle
    THEN [ret |-> ERROR, branch |-> "null", mem |-> m]
    ELSE LET d == InsertDescend(m, key[pNewNode], pRoot, EmptyAncestor, 0)
         IN  IF d.dup
             THEN [ret |-> ERROR, branch |-> "duplicate", mem |-> m]
             ELSE [ret |-> OK, branch |-> "leaf",
                   mem |-> avlUintRebalance(AttachLeaf(m, d.ppNode, pNewNode),
                                            d.ancestor, d.ancestorCount)]

\* Mutant of avlUintInsert: the new node is initialised before the descent
\* instead of after the capacity test.
avlUintInsertEagerInit(m, pRoot, pNewNode) ==
    IF pNewNode = NULL \/ pRoot = NullHandle
    THEN [ret |-> ERROR, branch |-> "null", mem |-> m]
    ELSE LET m0 == SetHeight(SetRight(SetLeft(m, pNewNode, NULL),
                                      pNewNode, NULL), pNewNode, 1)
             d  == InsertDescend(m0, key[pNewNode], pRoot, EmptyAncestor, 0)
         IN  IF d.dup
             THEN [ret |-> ERROR, branch |-> "duplicate", mem |-> m0]
             ELSE IF d.ancestorCount = AVLU_MAX_HEIGHT
             THEN [ret |-> ERROR, branch |-> "full", mem |-> m0]
             ELSE [ret |-> OK, branch |-> "leaf",
                   mem |-> avlUintRebalance(Store(m0, d.ppNode, pNewNode),
                                            d.ancestor, d.ancestorCount)]

avlUintInsert(m, pRoot, pNewNode) ==
    IF pNewNode = NULL \/ pRoot = NullHandle
    THEN [ret |-> ERROR, branch |-> "null", mem |-> m]
    ELSE LET d == InsertDescend(m, key[pNewNode], pRoot, EmptyAncestor, 0)
         IN  IF d.dup
             THEN [ret |-> ERROR, branch |-> "duplicate", mem |-> m]
             ELSE IF d.ancestorCount = AVLU_MAX_HEIGHT
             THEN [ret |-> ERROR, branch |-> "full", mem |-> m]
             ELSE [ret |-> OK, branch |-> "leaf",
                   mem |-> avlUintRebalance(AttachLeaf(m, d.ppNode, pNewNode),
                                            d.ancestor, d.ancestorCount)]

\* The iterations of avlUintRebalance in avlUintInsert (pRoot, pNewNode).
InsertRebalanceSteps(m, pRoot, pNewNode) ==
    IF avlUintInsert(m, pRoot, pNewNode).branch # "leaf"
    THEN <<>>
    ELSE LET d == InsertDescend(m, key[pNewNode], pRoot, EmptyAncestor, 0)
         IN  RebalanceSteps(AttachLeaf(m, d.ppNode, pNewNode), d.ancestor,
                            d.ancestorCount)

\* The rotations avlUintInsert (pRoot, pNewNode) performs.
InsertRotations(m, pRoot, pNewNode) ==
    IF avlUintInsert(m, pRoot, pNewNode).branch # "leaf"
    THEN <<>>
    ELSE LET d == InsertDescend(m, key[pNewNode], pRoot, EmptyAncestor, 0)
         IN  Rotations(AttachLeaf(m, d.ppNode, pNewNode), d.ancestor,
                       d.ancestorCount)

(* ------------------------------- delete ------------------------------- *)

\* Mutant of DeleteDescend: the loop runs while ancestorCount is at most
\* AVLU_MAX_HEIGHT.
RECURSIVE DeleteDescendOverrun(_, _, _, _, _, _)
DeleteDescendOverrun(m, k, ppNode, pNode, ancestor, ancestorCount) ==
    IF ~(ancestorCount <= AVLU_MAX_HEIGHT)
    THEN [absent |-> FALSE, ppNode |-> ppNode, pNode |-> pNode,
          ancestor |-> ancestor, ancestorCount |-> ancestorCount]
    ELSE LET p == Load(m, ppNode)
         IN  IF p = NULL
             THEN [absent |-> TRUE, ppNode |-> ppNode, pNode |-> p,
                   ancestor |-> ancestor, ancestorCount |-> ancestorCount]
             ELSE LET a == [ancestor EXCEPT ![ancestorCount] = ppNode]
                      n == ancestorCount + 1
                  IN  IF k = key[p]
                      THEN [absent |-> FALSE, ppNode |-> ppNode, pNode |-> p,
                            ancestor |-> a, ancestorCount |-> n]
                      ELSE DeleteDescendOverrun(m, k, ChildSlot(k, p), p, a, n)

\* The first loop of avlUintDelete: find the node to be deleted.
\* absent: the descent met an empty slot.
RECURSIVE DeleteDescend(_, _, _, _, _, _)
DeleteDescend(m, k, ppNode, pNode, ancestor, ancestorCount) ==
    IF ~(ancestorCount < AVLU_MAX_HEIGHT)
    THEN [absent |-> FALSE, ppNode |-> ppNode, pNode |-> pNode,
          ancestor |-> ancestor, ancestorCount |-> ancestorCount]
    ELSE LET p == Load(m, ppNode)
         IN  IF p = NULL
             THEN [absent |-> TRUE, ppNode |-> ppNode, pNode |-> p,
                   ancestor |-> ancestor, ancestorCount |-> ancestorCount]
             ELSE LET a == [ancestor EXCEPT ![ancestorCount] = ppNode]
                      n == ancestorCount + 1
                  IN  IF k = key[p]
                      THEN [absent |-> FALSE, ppNode |-> ppNode, pNode |-> p,
                            ancestor |-> a, ancestorCount |-> n]
                      ELSE DeleteDescend(m, k, ChildSlot(k, p), p, a, n)

\* The second loop of avlUintDelete: find the node just before delNode.
RECURSIVE PredecessorDescend(_, _, _, _, _)
PredecessorDescend(m, ppNode, pNode, ancestor, ancestorCount) ==
    IF ~(ancestorCount < AVLU_MAX_HEIGHT)
    THEN [ppNode |-> ppNode, pNode |-> pNode, ancestor |-> ancestor,
          ancestorCount |-> ancestorCount]
    ELSE LET p == Load(m, ppNode)
         IN  IF m.right[p] = NULL
             THEN [ppNode |-> ppNode, pNode |-> p, ancestor |-> ancestor,
                   ancestorCount |-> ancestorCount]
             ELSE PredecessorDescend(m, RightSlot(p), p,
                      [ancestor EXCEPT ![ancestorCount] = ppNode],
                      ancestorCount + 1)

\* delNode has no left child: its right child replaces it.
DeleteNoLeft(m, ppNode, pNode) == Store(m, ppNode, m.right[pNode])

\* Mutant of DeletePromote: the promoted node is not unlinked from the slot
\* that held it.
DeletePromoteNoUnlink(m, ppNode, pNode, ppDelete, pDelete) ==
    LET m2 == SetLeft(m, pNode, m.left[pDelete])
        m3 == SetRight(m2, pNode, m2.right[pDelete])
        m4 == SetHeight(m3, pNode, m3.height[pDelete])
    IN  Store(m4, ppDelete, pNode)

\* Mutant of DeletePromote: the promoted node does not take the right
\* subtree of the deleted node.
DeletePromoteNoRight(m, ppNode, pNode, ppDelete, pDelete) ==
    LET m1 == Store(m, ppNode, m.left[pNode])
        m2 == SetLeft(m1, pNode, m1.left[pDelete])
        m3 == SetHeight(m2, pNode, m2.height[pDelete])
    IN  Store(m3, ppDelete, pNode)

\* pNode, the node just before pDelete, is unlinked at ppNode and takes the
\* place of pDelete at ppDelete.
DeletePromote(m, ppNode, pNode, ppDelete, pDelete) ==
    LET m1 == Store(m, ppNode, m.left[pNode])
        m2 == SetLeft(m1, pNode, m1.left[pDelete])
        m3 == SetRight(m2, pNode, m2.right[pDelete])
        m4 == SetHeight(m3, pNode, m3.height[pDelete])
    IN  Store(m4, ppDelete, pNode)

\* Mutant of avlUintDelete: after promoting the predecessor the routine
\* returns the promoted node instead of the deleted one.
avlUintDeleteReturnsPromoted(m, pRoot, k) ==
    IF pRoot = NullHandle
    THEN [ret |-> NULL, branch |-> "null", mem |-> m]
    ELSE LET d == DeleteDescend(m, k, pRoot, NULL, EmptyAncestor, 0)
         IN  IF d.absent
             THEN [ret |-> NULL, branch |-> "absent", mem |-> m]
             ELSE IF d.ancestorCount = AVLU_MAX_HEIGHT
             THEN [ret |-> NULL, branch |-> "full", mem |-> m]
             ELSE IF m.left[d.pNode] = NULL
             THEN [ret |-> d.pNode, branch |-> "noleft",
                   mem |-> avlUintRebalance(
                               DeleteNoLeft(m, d.ppNode, d.pNode),
                               d.ancestor, d.ancestorCount - 1)]
             ELSE LET deleteAncestorCount == d.ancestorCount
                      p == PredecessorDescend(m, LeftSlot(d.pNode), d.pNode,
                                              d.ancestor, d.ancestorCount)
                  IN  IF p.ancestorCount = AVLU_MAX_HEIGHT
                      THEN [ret |-> NULL, branch |-> "predfull", mem |-> m]
                      ELSE [ret |-> p.pNode, branch |-> "promote",
                            mem |-> avlUintRebalance(
                                DeletePromote(m, p.ppNode, p.pNode,
                                              d.ppNode, d.pNode),
                                [p.ancestor EXCEPT ![deleteAncestorCount] =
                                                       LeftSlot(p.pNode)],
                                p.ancestorCount)]

avlUintDelete(m, pRoot, k) ==
    IF pRoot = NullHandle
    THEN [ret |-> NULL, branch |-> "null", mem |-> m]
    ELSE LET d == DeleteDescend(m, k, pRoot, NULL, EmptyAncestor, 0)
         IN  IF d.absent
             THEN [ret |-> NULL, branch |-> "absent", mem |-> m]
             ELSE IF d.ancestorCount = AVLU_MAX_HEIGHT
             THEN [ret |-> NULL, branch |-> "full", mem |-> m]
             ELSE IF m.left[d.pNode] = NULL
             THEN [ret |-> d.pNode, branch |-> "noleft",
                   mem |-> avlUintRebalance(
                               DeleteNoLeft(m, d.ppNode, d.pNode),
                               d.ancestor, d.ancestorCount - 1)]
             ELSE LET deleteAncestorCount == d.ancestorCount
                      p == PredecessorDescend(m, LeftSlot(d.pNode), d.pNode,
                                              d.ancestor, d.ancestorCount)
                  IN  IF p.ancestorCount = AVLU_MAX_HEIGHT
                      THEN [ret |-> NULL, branch |-> "predfull", mem |-> m]
                      ELSE [ret |-> d.pNode, branch |-> "promote",
                            mem |-> avlUintRebalance(
                                DeletePromote(m, p.ppNode, p.pNode,
                                              d.ppNode, d.pNode),
                                [p.ancestor EXCEPT ![deleteAncestorCount] =
                                                       LeftSlot(p.pNode)],
                                p.ancestorCount)]

\* The iterations of avlUintRebalance in avlUintDelete (pRoot, k).
DeleteRebalanceSteps(m, pRoot, k) ==
    LET r == avlUintDelete(m, pRoot, k)
        d == DeleteDescend(m, k, pRoot, NULL, EmptyAncestor, 0)
    IN  IF r.branch = "noleft"
        THEN RebalanceSteps(DeleteNoLeft(m, d.ppNode, d.pNode), d.ancestor,
                            d.ancestorCount - 1)
        ELSE IF r.branch = "promote"
        THEN LET p == PredecessorDescend(m, LeftSlot(d.pNode), d.pNode,
                                         d.ancestor, d.ancestorCount)
             IN  RebalanceSteps(
                     DeletePromote(m, p.ppNode, p.pNode, d.ppNode, d.pNode),
                     [p.ancestor EXCEPT ![d.ancestorCount] = LeftSlot(p.pNode)],
                     p.ancestorCount)
        ELSE <<>>

(* ------------------------------ queries ------------------------------- *)

\* Mutant of avlUintSearch: the descent turns the wrong way.
RECURSIVE avlUintSearchReversed(_, _, _)
avlUintSearchReversed(m, pNode, k) ==
    IF pNode = NULL
    THEN NULL
    ELSE IF k = key[pNode]
    THEN pNode
    ELSE IF k < key[pNode]
    THEN avlUintSearchReversed(m, m.right[pNode], k)
    ELSE avlUintSearchReversed(m, m.left[pNode], k)

RECURSIVE avlUintSearch(_, _, _)
avlUintSearch(m, pNode, k) ==
    IF pNode = NULL
    THEN NULL
    ELSE IF k = key[pNode]
    THEN pNode
    ELSE IF k < key[pNode]
    THEN avlUintSearch(m, m.left[pNode], k)
    ELSE avlUintSearch(m, m.right[pNode], k)

\* Mutant of SuccessorLoop: a node with the requested key is a candidate.
RECURSIVE SuccessorLoopInclusive(_, _, _, _)
SuccessorLoopInclusive(m, pNode, pSuccessor, k) ==
    IF pNode = NULL
    THEN pSuccessor
    ELSE IF k > key[pNode]
    THEN SuccessorLoopInclusive(m, m.right[pNode], pSuccessor, k)
    ELSE SuccessorLoopInclusive(m, m.left[pNode], pNode, k)

\* The loop of avlUintSuccessorGet, from pNode with candidate pSuccessor.
RECURSIVE SuccessorLoop(_, _, _, _)
SuccessorLoop(m, pNode, pSuccessor, k) ==
    IF pNode = NULL
    THEN pSuccessor
    ELSE IF k >= key[pNode]
    THEN SuccessorLoop(m, m.right[pNode], pSuccessor, k)
    ELSE SuccessorLoop(m, m.left[pNode], pNode, k)

avlUintSuccessorGet(m, r, k) == SuccessorLoop(m, r, NULL, k)

\* The loop of avlUintPredecessorGet, from pNode with candidate pPred.
RECURSIVE PredecessorLoop(_, _, _, _)
PredecessorLoop(m, pNode, pPred, k) ==
    IF pNode = NULL
    THEN pPred
    ELSE IF k <= key[pNode]
    THEN PredecessorLoop(m, m.left[pNode], pPred, k)
    ELSE PredecessorLoop(m, m.right[pNode], pNode, k)

avlUintPredecessorGet(m, r, k) == PredecessorLoop(m, r, NULL, k)

\* Mutant of avlUintMinimumGet: one step to the left instead of a loop.
avlUintMinimumGetOneStep(m, r) ==
    IF r = NULL
    THEN NULL
    ELSE IF m.left[r] # NULL THEN m.left[r] ELSE r

RECURSIVE avlUintMinimumGet(_, _)
avlUintMinimumGet(m, r) ==
    IF r = NULL
    THEN NULL
    ELSE IF m.left[r] # NULL
    THEN avlUintMinimumGet(m, m.left[r])
    ELSE r

RECURSIVE avlUintMaximumGet(_, _)
avlUintMaximumGet(m, r) ==
    IF r = NULL
    THEN NULL
    ELSE IF m.right[r] # NULL
    THEN avlUintMaximumGet(m, m.right[r])
    ELSE r

(* ------------------------------ tree walk ----------------------------- *)

\* The callback routines of a walk.  pre, in, post: whether preRtn, inRtn,
\* postRtn are not NULL.  The routine failKind returns ERROR on its
\* failAt-th invocation; every other invocation returns OK.  overwrite: the
\* in-order routine fills the left, right and height fields of the node it
\* is given with the word fill.
NoCallbacks ==
    [pre |-> FALSE, in |-> FALSE, post |-> FALSE, failKind |-> "none",
     failAt |-> 0, overwrite |-> FALSE, fill |-> NULL]

\* The number of invocations of the routine kind in log.
Invocations(log, kind) ==
    Cardinality({i \in 1..Len(log) : log[i][1] = kind})

\* Invoke the routine kind on pNode: the log with the invocation, and what
\* the routine returns.
Invoke(cbs, log, kind, pNode) ==
    LET l == Append(log, <<kind, pNode>>)
    IN  [log |-> l,
         ret |-> IF cbs.failKind = kind /\ Invocations(l, kind) = cbs.failAt
                 THEN ERROR ELSE OK]

\* The memory when inRtn (pNode, inArg) returns.
InRtn(cbs, m, pNode) ==
    IF cbs.in /\ cbs.overwrite
    THEN SetHeight(SetRight(SetLeft(m, pNode, cbs.fill), pNode, cbs.fill),
                   pNode, cbs.fill)
    ELSE m

\* Whether the in-order routine has been invoked on pNode in log.
InOrderDone(log, pNode) ==
    \E i \in 1..Len(log) : log[i] = <<"in", pNode>>

\* (ULONG) pNode: node records are aligned, their addresses are even.
Addr(pNode) == 2 * pNode

\* (AVLU_NODE *) (entry & ~1UL)
NodeAt(entry) == (entry - (entry % 2)) \div 2

\* ULONG nodeStack [2 * AVLU_MAX_HEIGHT]
EmptyStack == [i \in 0..(2 * AVLU_MAX_HEIGHT - 1) |-> 0]

\* The inner loop of the first pass: call pre-order, push, go left.
RECURSIVE WalkLeft(_, _, _)
WalkLeft(cbs, m, w) ==
    IF w.pNode = NULL
    THEN w
    ELSE LET c == IF cbs.pre
                  THEN Invoke(cbs, w.log, "pre", w.pNode)
                  ELSE [log |-> w.log, ret |-> OK]
         IN  IF c.ret = ERROR
             THEN [w EXCEPT !.log = c.log, !.ret = ERROR]
             ELSE IF w.ix >= 2 * AVLU_MAX_HEIGHT
             THEN [w EXCEPT !.log = c.log, !.ret = ERROR, !.full = TRUE]
             ELSE WalkLeft(cbs, m,
                      [w EXCEPT !.log = c.log,
                                !.nodeStack[w.ix] = Addr(w.pNode),
                                !.used = @ \cup {w.ix},
                                !.ix = w.ix + 1,
                                !.late = IF InOrderDone(c.log, w.pNode)
                                         THEN @ \cup {w.pNode} ELSE @,
                                !.pNode = m.left[w.pNode]])

\* Mutant of WalkPreIn: the right child is read when the in-order routine
\* has returned.
RECURSIVE WalkPreInReadAfter(_, _, _)
WalkPreInReadAfter(cbs, m, w) ==
    IF ~(w.ix < 2 * AVLU_MAX_HEIGHT)
    THEN w
    ELSE LET d == WalkLeft(cbs, m, w)
         IN  IF d.ret = ERROR
             THEN d
             ELSE IF d.ix = 0
             THEN d
             ELSE LET ix    == d.ix - 1
                      pNode == NodeAt(d.nodeStack[ix])
                      c     == IF cbs.in
                               THEN Invoke(cbs, d.log, "in", pNode)
                               ELSE [log |-> d.log, ret |-> OK]
                      m2    == InRtn(cbs, m, pNode)
                      r     == m2.right[pNode]
                      late  == IF InOrderDone(c.log, pNode)
                               THEN d.late \cup {pNode} ELSE d.late
                  IN  IF c.ret = ERROR
                      THEN [d EXCEPT !.ix = ix, !.pNode = pNode,
                                     !.used = @ \cup {ix},
                                     !.mem = m2,
                                     !.log = c.log, !.ret = ERROR]
                      ELSE WalkPreInReadAfter(cbs, m2,
                               [d EXCEPT !.ix = ix, !.pNode = r,
                                         !.used = @ \cup {ix},
                                         !.late = late, !.mem = m2,
                                         !.log = c.log])

\* Mutant of WalkPreIn: after the in-order call the walk does not continue
\* with the right child.
RECURSIVE WalkPreInSkipRight(_, _, _)
WalkPreInSkipRight(cbs, m, w) ==
    IF ~(w.ix < 2 * AVLU_MAX_HEIGHT)
    THEN w
    ELSE LET d == WalkLeft(cbs, m, w)
         IN  IF d.ret = ERROR
             THEN d
             ELSE IF d.ix = 0
             THEN d
             ELSE LET ix    == d.ix - 1
                      pNode == NodeAt(d.nodeStack[ix])
                      c     == IF cbs.in
                               THEN Invoke(cbs, d.log, "in", pNode)
                               ELSE [log |-> d.log, ret |-> OK]
                      m2    == InRtn(cbs, m, pNode)
                  IN  IF c.ret = ERROR
                      THEN [d EXCEPT !.ix = ix, !.pNode = pNode,
                                     !.used = @ \cup {ix},
                                     !.mem = m2,
                                     !.log = c.log, !.ret = ERROR]
                      ELSE WalkPreInSkipRight(cbs, m2,
                               [d EXCEPT !.ix = ix, !.pNode = NULL,
                                         !.used = @ \cup {ix},
                                         !.mem = m2,
                                         !.log = c.log])

\* The first pass: pre-order and in-order.
RECURSIVE WalkPreIn(_, _, _)
WalkPreIn(cbs, m, w) ==
    IF ~(w.ix < 2 * AVLU_MAX_HEIGHT)
    THEN w
    ELSE LET d == WalkLeft(cbs, m, w)
         IN  IF d.ret = ERROR
             THEN d
             ELSE IF d.ix = 0
             THEN d
             ELSE LET ix    == d.ix - 1
                      pNode == NodeAt(d.nodeStack[ix])
                      r     == m.right[pNode]
                      late  == IF InOrderDone(d.log, pNode)
                               THEN d.late \cup {pNode} ELSE d.late
                      c     == IF cbs.in
                               THEN Invoke(cbs, d.log, "in", pNode)
                               ELSE [log |-> d.log, ret |-> OK]
                      m2    == InRtn(cbs, m, pNode)
                  IN  IF c.ret = ERROR
                      THEN [d EXCEPT !.ix = ix, !.pNode = pNode,
                                     !.used = @ \cup {ix},
                                     !.late = late, !.mem = m2,
                                     !.log = c.log, !.ret = ERROR]
                      ELSE WalkPreIn(cbs, m2,
                               [d EXCEPT !.ix = ix, !.pNode = r,
                                         !.used = @ \cup {ix},
                                         !.late = late, !.mem = m2,
                                         !.log = c.log])

\* Push the right and the left child of pNode, where there is one.
PushChildren(m, w, pNode) ==
    LET w1 == IF m.right[pNode] # NULL
              THEN [w EXCEPT !.nodeStack[w.ix] = Addr(m.right[pNode]),
                             !.used = @ \cup {w.ix},
                             !.ix = w.ix + 1]
              ELSE w
    IN  IF m.left[pNode] # NULL
        THEN [w1 EXCEPT !.nodeStack[w1.ix] = Addr(m.left[pNode]),
                        !.used = @ \cup {w1.ix},
                        !.ix = w1.ix + 1]
        ELSE w1

\* The second pass: post-order.
RECURSIVE WalkPost(_, _, _)
WalkPost(cbs, m, w) ==
    IF ~(w.ix > 0)
    THEN w
    ELSE LET ix    == w.ix - 1
             entry == w.nodeStack[ix]
             pNode == NodeAt(entry)
         IN  IF entry % 2 = 0
             THEN LET w1 == [w EXCEPT !.pNode = pNode,
                                      !.nodeStack[ix] = Addr(pNode) + 1,
                                      !.used = @ \cup {ix},
                                      !.ix = ix + 1]
                  IN  IF (w1.ix + 2) >= 2 * AVLU_MAX_HEIGHT
                      THEN [w1 EXCEPT !.ret = ERROR, !.full = TRUE]
                      ELSE WalkPost(cbs, m, PushChildren(m, w1, pNode))
             ELSE LET c == Invoke(cbs, w.log, "post", pNode)
                  IN  IF c.ret = ERROR
                      THEN [w EXCEPT !.ix = ix, !.pNode = pNode,
                                     !.used = @ \cup {ix},
                                     !.log = c.log, !.ret = ERROR]
                      ELSE WalkPost(cbs, m,
                               [w EXCEPT !.ix = ix, !.pNode = pNode,
                                         !.used = @ \cup {ix},
                                         !.log = c.log])

\* Mutant of avlUintTreeWalk: an ERROR of the first pass is kept for the
\* return value but does not stop the post-order pass from running.
avlUintTreeWalkNoAbort(m, r, cbs) ==
    LET w0 == [nodeStack |-> EmptyStack, ix |-> 0, pNode |-> r, log |-> <<>>,
               ret |-> OK, full |-> FALSE, used |-> {}, late |-> {},
               mem |-> m]
    IN  IF r = NULL
        THEN w0
        ELSE LET w1 == IF cbs.pre \/ cbs.in THEN WalkPreIn(cbs, m, w0) ELSE w0
                 w2 == IF cbs.post
                       THEN WalkPost(cbs, w1.mem,
                                [w1 EXCEPT !.ix = 1, !.pNode = r,
                                           !.nodeStack[0] = Addr(r),
                                           !.used = @ \cup {0},
                                           !.ret = OK])
                       ELSE w1
             IN  IF w1.ret = ERROR THEN [w2 EXCEPT !.ret = ERROR] ELSE w2

\* The iterative avlUintTreeWalk.  full: ERROR was returned by one of the
\* two tests of the stack index.  used: the indices at which nodeStack was
\* read or written.  late: the nodes whose left or right field the first
\* pass read after it had invoked the in-order routine on them.  mem: the
\* memory when the walk returns.
avlUintTreeWalk(m, r, cbs) ==
    LET w0 == [nodeStack |-> EmptyStack, ix |-> 0, pNode |-> r, log |-> <<>>,
               ret |-> OK, full |-> FALSE, used |-> {}, late |-> {},
               mem |-> m]
    IN  IF r = NULL
        THEN w0
        ELSE LET w1 == IF cbs.pre \/ cbs.in THEN WalkPreIn(cbs, m, w0) ELSE w0
             IN  IF w1.ret = ERROR
                 THEN w1
                 ELSE IF cbs.post
                 THEN WalkPost(cbs, w1.mem,
                          [w1 EXCEPT !.ix = 1, !.pNode = r,
                                     !.nodeStack[0] = Addr(r),
                                     !.used = @ \cup {0}])
                 ELSE w1

\* avlUintTreeWalk as compiled with AVLU_RECURSIVE_WALK, continuing log.
RECURSIVE avlUintTreeWalkRecursive(_, _, _, _)
avlUintTreeWalkRecursive(m, r, cbs, log) ==
    IF r = NULL
    THEN [log |-> log, ret |-> OK]
    ELSE LET a == IF cbs.pre
                  THEN Invoke(cbs, log, "pre", r)
                  ELSE [log |-> log, ret |-> OK]
         IN  IF a.ret = ERROR THEN a ELSE
         LET b == IF m.left[r] # NULL
                  THEN avlUintTreeWalkRecursive(m, m.left[r], cbs, a.log)
                  ELSE a
         IN  IF b.ret = ERROR THEN b ELSE
         LET c == IF cbs.in
                  THEN Invoke(cbs, b.log, "in", r)
                  ELSE b
         IN  IF c.ret = ERROR THEN c ELSE
         LET d == IF m.right[r] # NULL
                  THEN avlUintTreeWalkRecursive(m, m.right[r], cbs, c.log)
                  ELSE c
         IN  IF d.ret = ERROR THEN d ELSE
         IF cbs.post THEN Invoke(cbs, d.log, "post", r) ELSE d

\* The callback arguments of a walk: any of the three routines may be NULL,
\* and at most one of those supplied returns ERROR, on one of its first
\* MaxFail invocations (the walk ends at the first ERROR, so a second failing
\* routine would never be seen to fail).
Callbacks ==
    {c \in [pre : BOOLEAN, in : BOOLEAN, post : BOOLEAN,
            failKind : {"none", "pre", "in", "post"}, failAt : 0..MaxFail,
            overwrite : {FALSE}, fill : {NULL}] :
        /\ (c.failKind = "none") <=> (c.failAt = 0)
        /\ c.failKind = "pre" => c.pre
        /\ c.failKind = "in" => c.in
        /\ c.failKind = "post" => c.post}

\* A walk with nothing but an in-order routine, which returns OK and
\* overwrites the node it is given.
OverwritingCallbacks ==
    {[NoCallbacks EXCEPT !.in = TRUE, !.overwrite = TRUE, !.fill = v] :
        v \in NodeOrNull}

(* ------------------------------ actions ------------------------------- *)

\* The handles a caller may pass: the address of the tree, or NULL.
Handle == {RootSlot, NullHandle}

\* A record outside the tree belongs to the caller.  The library reads
\* nothing but its key before avlUintInsert overwrites left, right and
\* height, so every record outside the tree is kept in this one state.
Fresh(m, pNode) ==
    SetHeight(SetRight(SetLeft(m, pNode, NULL), pNode, NULL), pNode, 0)

Init ==
    /\ lp64 \in BOOLEAN
    /\ root = NULL
    /\ key = [n \in Node |-> KeyOf(n)]
    /\ left = [n \in Node |-> NULL]
    /\ right = [n \in Node |-> NULL]
    /\ height = [n \in Node |-> 0]
    /\ call = [op |-> "none", pRoot |-> NullHandle, node |-> NULL, key |-> 0]
    /\ ret = OK
    /\ branch = "none"
    /\ inserted = {}
    /\ deleted = {}
    /\ callbacks = NoCallbacks
    /\ visits = <<>>

SetMem(m) ==
    /\ root' = m.root
    /\ left' = m.left
    /\ right' = m.right
    /\ height' = m.height

\* The call avlUintInsert (pRoot, pNewNode).
InsertCall(pRoot, pNewNode) ==
    LET r == avlUintInsert(Mem, pRoot, pNewNode)
    IN  /\ SetMem(r.mem)
        /\ ret' = r.ret
        /\ branch' = r.branch
        /\ call' = [op |-> "insert", pRoot |-> pRoot, node |-> pNewNode,
                    key |-> IF pNewNode = NULL THEN 0 ELSE key[pNewNode]]
        /\ callbacks' = NoCallbacks
        /\ visits' = <<>>
        /\ UNCHANGED <<lp64, key>>

\* The call avlUintDelete (pRoot, k); the caller disposes of the node it
\* gets.
DeleteCall(pRoot, k) ==
    LET r == avlUintDelete(Mem, pRoot, k)
    IN  /\ SetMem(IF r.ret = NULL THEN r.mem ELSE Fresh(r.mem, r.ret))
        /\ ret' = r.ret
        /\ branch' = r.branch
        /\ call' = [op |-> "delete", pRoot |-> pRoot, node |-> NULL, key |-> k]
        /\ callbacks' = NoCallbacks
        /\ visits' = <<>>
        /\ UNCHANGED <<lp64, key>>

\* A caller inserts a node.
Insert(pRoot, pNewNode) ==
    InsertCall(pRoot, pNewNode) /\ UNCHANGED <<inserted, deleted>>

\* A caller deletes a key.
Delete(pRoot, k) ==
    DeleteCall(pRoot, k) /\ UNCHANGED <<inserted, deleted>>

\* A call of one of the routines that only read the tree.
Query(op, k, result) ==
    /\ ret' = result
    /\ branch' = "return"
    /\ call' = [op |-> op, pRoot |-> RootSlot, node |-> NULL, key |-> k]
    /\ callbacks' = NoCallbacks
    /\ visits' = <<>>
    /\ UNCHANGED <<lp64, root, key, left, right, height, inserted, deleted>>

Search(k) == Query("search", k, avlUintSearch(Mem, root, k))

SuccessorGet(k) == Query("successor", k, avlUintSuccessorGet(Mem, root, k))

PredecessorGet(k) == Query("predecessor", k, avlUintPredecessorGet(Mem, root, k))

MinimumGet == Query("minimum", 0, avlUintMinimumGet(Mem, root))

MaximumGet == Query("maximum", 0, avlUintMaximumGet(Mem, root))

Next ==
    \/ \E pRoot \in Handle, pNewNode \in NodeOrNull : Insert(pRoot, pNewNode)
    \/ \E pRoot \in Handle, k \in Key : Delete(pRoot, k)
    \/ \E k \in Key : Search(k)
    \/ \E k \in Key : SuccessorGet(k)
    \/ \E k \in Key : PredecessorGet(k)
    \/ MinimumGet
    \/ MaximumGet

Spec == Init /\ [][Next]_vars

(* ----------------------------- round trip ----------------------------- *)

\* Insert a node with a key not inserted before; the insert returns OK.
RoundTripInsert(pNewNode) ==
    /\ deleted = {}
    /\ key[pNewNode] \notin inserted
    /\ InsertCall(RootSlot, pNewNode)
    /\ ret' = OK
    /\ inserted' = inserted \cup {key[pNewNode]}
    /\ UNCHANGED deleted

\* Call avlUintDelete with one of the inserted keys, once per key.
RoundTripDelete(k) ==
    /\ k \in inserted \ deleted
    /\ DeleteCall(RootSlot, k)
    /\ deleted' = deleted \cup {k}
    /\ UNCHANGED inserted

RoundTripNext ==
    \/ \E pNewNode \in Node : RoundTripInsert(pNewNode)
    \/ \E k \in Key : RoundTripDelete(k)

SpecRoundTrip == Init /\ [][RoundTripNext]_vars

(* --------------------------- tree, as a set --------------------------- *)

Max(a, b) == IF a > b THEN a ELSE b

\* The nodes one child pointer away from the nodes of S.
Children(m, S) ==
    ({m.left[n] : n \in S} \cup {m.right[n] : n \in S}) \ {NULL}

RECURSIVE Closure(_, _, _)
Closure(m, S, i) ==
    LET T == S \cup Children(m, S)
    IN  IF i = 0 \/ T = S THEN S ELSE Closure(m, T, i - 1)

\* The nodes of the subtree rooted at p.
Subtree(m, p) ==
    IF p = NULL THEN {} ELSE Closure(m, {p}, Cardinality(Node))

\* The nodes reachable from the root slot.
TreeNodes == Subtree(Mem, root)

TreeKeys == {key[n] : n \in TreeNodes}

\* The number of nodes on the longest path from p down to a leaf.
RECURSIVE TrueHeight(_, _, _)
TrueHeight(m, p, fuel) ==
    IF p = NULL \/ fuel = 0
    THEN 0
    ELSE 1 + Max(TrueHeight(m, m.left[p], fuel - 1),
                 TrueHeight(m, m.right[p], fuel - 1))

SubtreeHeight(p) == TrueHeight(Mem, p, Cardinality(Node) + 1)

(* ------------------------------- claims ------------------------------- *)

\* C1: for every node reachable from the root, all keys in its left subtree
\* are strictly smaller than its key and all keys in its right subtree are
\* strictly greater, after any sequence of insert and delete calls.
C1_Ordering ==
    \A n \in TreeNodes :
        /\ \A x \in Subtree(Mem, left[n]) : key[x] < key[n]
        /\ \A x \in Subtree(Mem, right[n]) : key[x] > key[n]

\* A delete that promoted a predecessor has returned and left a tree of at
\* least four nodes, three levels high.
C1_Witness ==
    /\ call.op = "delete"
    /\ branch = "promote"
    /\ Cardinality(TreeNodes) >= 4
    /\ SubtreeHeight(root) = 3

\* C2: after every insert or delete call, the true heights of the left and
\* right subtrees of every reachable node differ by at most 1.
C2_Balance ==
    \A n \in TreeNodes :
        LET d == SubtreeHeight(right[n]) - SubtreeHeight(left[n])
        IN  -1 <= d /\ d <= 1

\* An insert has returned OK and the tree is not perfectly balanced: some
\* node has subtrees of different heights.
C2_Witness ==
    /\ call.op = "insert"
    /\ ret = OK
    /\ Cardinality(TreeNodes) >= 4
    /\ \E n \in TreeNodes : SubtreeHeight(right[n]) # SubtreeHeight(left[n])

\* C3: after every insert or delete call, the height field of every
\* reachable node is 1 + the larger of the stored heights of its children,
\* an absent child counting 0.
C3_StoredHeight ==
    \A n \in TreeNodes :
        height[n] = 1 + Max(HeightOf(Mem, left[n]), HeightOf(Mem, right[n]))

\* A delete has returned a node and the root of the remaining tree has
\* stored height 3.
C3_Witness ==
    /\ call.op = "delete"
    /\ ret # NULL
    /\ root # NULL
    /\ height[root] = 3

\* C4: an insert of a node whose key is not in the tree that returns OK
\* adds exactly that key and that node to the tree, and avlUintSearch then
\* finds the new node under its key.
C4_InsertAddsNode ==
    [][LET n == call'.node
       IN  (/\ call'.op = "insert"
            /\ ret' = OK
            /\ Insert(call'.pRoot, n)
            /\ key[n] \notin TreeKeys)
           => /\ TreeKeys' = TreeKeys \cup {key[n]}
              /\ TreeNodes' = TreeNodes \cup {n}
              /\ avlUintSearch(Mem', root', key[n]) = n]_vars

\* An insert has returned OK and rebalancing has made the new node the
\* root of a tree of at least three nodes.
C4_Witness ==
    /\ call.op = "insert"
    /\ ret = OK
    /\ call.node = root
    /\ height[root] >= 2
    /\ Cardinality(TreeNodes) >= 3

\* C5: an insert of a node whose key is already in the tree returns ERROR
\* and changes neither the root slot nor the left, right or height field of
\* any node, the rejected node included.
C5_DuplicateRejected ==
    [][LET n == call'.node
       IN  (/\ call'.op = "insert"
            /\ n # NULL
            /\ Insert(call'.pRoot, n)
            /\ key[n] \in TreeKeys)
           => /\ ret' = ERROR
              /\ root' = root
              /\ left' = left
              /\ right' = right
              /\ height' = height]_vars

\* An insert of a record outside the tree was rejected because a node below
\* the root carries its key.
C5_Witness ==
    /\ call.op = "insert"
    /\ branch = "duplicate"
    /\ call.node \notin TreeNodes
    /\ \E x \in TreeNodes \ {root} : key[x] = call.key

\* C6: when a delete returns a node, the node carries the requested key, it
\* was reachable from the root before the call and is not afterwards, and
\* the reachable nodes are the old ones without it.
C6_DeleteRemovesNode ==
    [][(/\ call'.op = "delete"
        /\ ret' # NULL
        /\ Delete(call'.pRoot, call'.key))
       => /\ key[ret'] = call'.key
          /\ ret' \in TreeNodes
          /\ ret' \notin TreeNodes'
          /\ TreeNodes' = TreeNodes \ {ret'}]_vars

\* A delete has promoted the predecessor of the node it returns, and at
\* least three nodes remain.
C6_Witness ==
    /\ call.op = "delete"
    /\ branch = "promote"
    /\ ret # NULL
    /\ ret \notin TreeNodes
    /\ Cardinality(TreeNodes) >= 3

\* C7: a delete of a key that avlUintSearch finds in the tree returns the
\* node that carries it, not NULL.
C7_DeleteFindsPresentKey ==
    [][(/\ call'.op = "delete"
        /\ Delete(RootSlot, call'.key)
        /\ avlUintSearch(Mem, root, call'.key) # NULL)
       => ret' = avlUintSearch(Mem, root, call'.key)]_vars

\* C8: after N distinct keys were inserted into an empty tree and
\* avlUintDelete was called once for each of them, the root slot is NULL,
\* avlUintMinimumGet and avlUintMaximumGet return NULL and avlUintSearch
\* returns NULL for each of the keys.
C8_RoundTripEmpty ==
    (inserted # {} /\ deleted = inserted)
    => /\ root = NULL
       /\ avlUintMinimumGet(Mem, root) = NULL
       /\ avlUintMaximumGet(Mem, root) = NULL
       /\ \A k \in inserted : avlUintSearch(Mem, root, k) = NULL

\* p is the node of the tree with the smallest key above k, or NULL when
\* the tree has no key above k.
IsLeastAbove(p, k) ==
    LET above == {n \in TreeNodes : key[n] > k}
    IN  IF above = {}
        THEN p = NULL
        ELSE p \in above /\ \A n \in above : key[p] <= key[n]

\* p is the node of the tree with the largest key below k, or NULL when
\* the tree has no key below k.
IsGreatestBelow(p, k) ==
    LET below == {n \in TreeNodes : key[n] < k}
    IN  IF below = {}
        THEN p = NULL
        ELSE p \in below /\ \A n \in below : key[p] >= key[n]

\* C9: avlUintSuccessorGet returns the node with the smallest key strictly
\* greater than the requested key and avlUintPredecessorGet the node with
\* the largest key strictly smaller, or NULL when there is none, whether or
\* not the requested key is in the tree.
C9_SuccessorPredecessor ==
    /\ call.op = "successor" => IsLeastAbove(ret, call.key)
    /\ call.op = "predecessor" => IsGreatestBelow(ret, call.key)

\* avlUintSuccessorGet was asked for a key of the tree and has returned an
\* ancestor of the node that carries it.
C9_Witness ==
    /\ call.op = "successor"
    /\ ret # NULL
    /\ \E x \in Subtree(Mem, left[ret]) : key[x] = call.key

\* C10: avlUintSearch returns the one reachable node that carries the
\* requested key when the key is in the tree, and NULL otherwise.
C10_Search ==
    call.op = "search"
    => IF call.key \in TreeKeys
       THEN /\ ret \in TreeNodes
            /\ key[ret] = call.key
            /\ \A x \in TreeNodes : key[x] = call.key => x = ret
       ELSE ret = NULL

\* avlUintSearch has found a leaf on the third level of the tree.
C10_Witness ==
    /\ call.op = "search"
    /\ ret # NULL
    /\ SubtreeHeight(root) = 3
    /\ \E x \in TreeNodes \ {root} : ret \in {left[x], right[x]} \ {NULL}
                                      /\ x \in {left[root], right[root]}

\* C11: avlUintMinimumGet returns the node with the smallest key of the tree
\* and avlUintMaximumGet the node with the largest key; each returns NULL
\* exactly when the tree is empty.
C11_MinimumMaximum ==
    /\ call.op = "minimum"
       => IF TreeNodes = {}
          THEN ret = NULL
          ELSE ret \in TreeNodes /\ \A n \in TreeNodes : key[ret] <= key[n]
    /\ call.op = "maximum"
       => IF TreeNodes = {}
          THEN ret = NULL
          ELSE ret \in TreeNodes /\ \A n \in TreeNodes : key[ret] >= key[n]

\* avlUintMinimumGet has returned a node on the third level of the tree.
C11_Witness ==
    /\ call.op = "minimum"
    /\ ret # NULL
    /\ root # NULL
    /\ left[root] # NULL
    /\ ret = left[left[root]]

(* ----------------------------- walking trees -------------------------- *)

\* avlUintTreeWalk (root, preRtn, preArg, inRtn, inArg, postRtn, postArg)
TreeWalk(cbs) ==
    \E w \in {avlUintTreeWalk(Mem, root, cbs)} :
        /\ SetMem(w.mem)
        /\ ret' = w.ret
        /\ branch' = IF w.full THEN "full" ELSE "return"
        /\ call' = [op |-> "walk", pRoot |-> RootSlot, node |-> root, key |-> 0]
        /\ callbacks' = cbs
        /\ visits' = w.log
        /\ UNCHANGED <<lp64, key, inserted, deleted>>

\* A caller that inserts, deletes and walks.
WalkNext ==
    \/ \E pNewNode \in Node : Insert(RootSlot, pNewNode)
    \/ \E k \in Key : Delete(RootSlot, k)
    \/ \E cbs \in Callbacks : TreeWalk(cbs)

SpecWalk == Init /\ [][WalkNext]_vars

\* The nodes the routine kind was invoked on by the last call, in order.
Visited(kind) ==
    LET s == SelectSeq(visits, LAMBDA e : e[1] = kind)
    IN  [i \in 1..Len(s) |-> s[i][2]]

\* s holds every node of the tree exactly once.
OncePerNode(s) ==
    /\ Len(s) = Cardinality(TreeNodes)
    /\ {s[i] : i \in 1..Len(s)} = TreeNodes

\* C12: a walk with an in-order routine that always returns OK, with or
\* without a pre-order routine that returns OK, invokes the in-order routine
\* exactly once per node of the tree, in strictly ascending key order.
C12_InOrderAscending ==
    (/\ call.op = "walk"
     /\ callbacks.in
     /\ callbacks.failKind \in {"none", "post"})
    => LET s == Visited("in")
       IN  /\ OncePerNode(s)
           /\ \A i \in 1..Len(s) : \A j \in 1..Len(s) :
                  i < j => key[s[i]] < key[s[j]]

\* A tree of five nodes has been walked in order, with a pre-order routine.
C12_Witness ==
    /\ call.op = "walk"
    /\ callbacks.in
    /\ callbacks.pre
    /\ callbacks.failKind = "none"
    /\ Len(Visited("in")) = 5

\* C13: when every supplied routine returns OK on every invocation,
\* avlUintTreeWalk returns OK and has invoked each supplied routine on every
\* node of the tree, whichever of the three routines are supplied and
\* whatever the height of the tree, AVLU_MAX_HEIGHT included.
C13_ErrorOnlyFromCallback ==
    (/\ call.op = "walk"
     /\ callbacks.failKind = "none")
    => /\ ret = OK
       /\ callbacks.pre => OncePerNode(Visited("pre"))
       /\ callbacks.in => OncePerNode(Visited("in"))
       /\ callbacks.post => OncePerNode(Visited("post"))

\* C14: as soon as a routine returns ERROR the walk returns ERROR and invokes
\* no routine afterwards: the failing invocation is the last one made, a
\* routine that fails on its n-th invocation has been invoked exactly n times,
\* and a failure of the pre-order or in-order routine leaves the post-order
\* routine never invoked.
C14_CallbackAbort ==
    (/\ call.op = "walk"
     /\ callbacks.failKind # "none"
     /\ Invocations(visits, callbacks.failKind) >= callbacks.failAt)
    => /\ ret = ERROR
       /\ visits[Len(visits)][1] = callbacks.failKind
       /\ Invocations(visits, callbacks.failKind) = callbacks.failAt
       /\ callbacks.failKind \in {"pre", "in"}
          => Invocations(visits, "post") = 0

\* A walk with all three routines ended at the third in-order invocation.
C14_Witness ==
    /\ call.op = "walk"
    /\ callbacks.pre /\ callbacks.post
    /\ callbacks.failKind = "in"
    /\ callbacks.failAt = 3
    /\ ret = ERROR
    /\ Invocations(visits, "in") = 3
    /\ Cardinality(TreeNodes) > 3

\* The nodes on which the recursive variant invokes the routine kind when it
\* walks the tree with the callbacks of the last call.
VisitedRecursive(kind) ==
    LET l == avlUintTreeWalkRecursive(Mem, root, callbacks, <<>>).log
        s == SelectSeq(l, LAMBDA e : e[1] = kind)
    IN  [i \in 1..Len(s) |-> s[i][2]]

\* The place of node n in the sequence s, 0 when it is not there.
Place(s, n) ==
    IF \E i \in 1..Len(s) : s[i] = n
    THEN CHOOSE i \in 1..Len(s) : s[i] = n
    ELSE 0

\* In s every node comes before its left subtree, which comes before its
\* right subtree.
PreOrdered(s) ==
    \A n \in TreeNodes :
        /\ \A a \in Subtree(Mem, left[n]) \cup Subtree(Mem, right[n]) :
               Place(s, n) < Place(s, a)
        /\ \A a \in Subtree(Mem, left[n]) : \A b \in Subtree(Mem, right[n]) :
               Place(s, a) < Place(s, b)

\* In s the left subtree of every node comes before its right subtree, which
\* comes before the node.
PostOrdered(s) ==
    \A n \in TreeNodes :
        /\ \A a \in Subtree(Mem, left[n]) \cup Subtree(Mem, right[n]) :
               Place(s, a) < Place(s, n)
        /\ \A a \in Subtree(Mem, left[n]) : \A b \in Subtree(Mem, right[n]) :
               Place(s, a) < Place(s, b)

\* C15: with routines that always return OK the iterative walk invokes the
\* pre-order routine once per node, each node before its left subtree and
\* that before its right subtree, and the post-order routine once per node,
\* left subtree, then right subtree, then the node; the pre-order, in-order
\* and post-order sequences each equal those of the recursive variant.
C15_PrePostAsRecursive ==
    (/\ call.op = "walk"
     /\ callbacks.failKind = "none")
    => /\ callbacks.pre
          => OncePerNode(Visited("pre")) /\ PreOrdered(Visited("pre"))
       /\ callbacks.post
          => OncePerNode(Visited("post")) /\ PostOrdered(Visited("post"))
       /\ \A kind \in {"pre", "in", "post"} :
              Visited(kind) = VisitedRecursive(kind)

(* ------------------------------ rotation example ---------------------- *)

\* The caller's nodes carry the keys 10, 20, 30, ...
ExampleInit ==
    /\ lp64 \in BOOLEAN
    /\ root = NULL
    /\ key = [n \in Node |-> 10 * n]
    /\ left = [n \in Node |-> NULL]
    /\ right = [n \in Node |-> NULL]
    /\ height = [n \in Node |-> 0]
    /\ call = [op |-> "none", pRoot |-> NullHandle, node |-> NULL, key |-> 0]
    /\ ret = OK
    /\ branch = "none"
    /\ inserted = {}
    /\ deleted = {}
    /\ callbacks = NoCallbacks
    /\ visits = <<>>

\* A caller that inserts and deletes these keys and walks the tree with
\* routines that return OK.
ExampleNext ==
    \/ \E pNewNode \in Node : Insert(RootSlot, pNewNode)
    \/ \E n \in Node : Delete(RootSlot, key[n])
    \/ \E cbs \in {c \in Callbacks : c.failKind = "none"} : TreeWalk(cbs)

SpecExample == ExampleInit /\ [][ExampleNext]_vars

\* The node that carries the key k.
NodeOfKey(k) == CHOOSE n \in Node : key[n] = k

\* pNode is a leaf of height 1.
IsLeaf(pNode) ==
    left[pNode] = NULL /\ right[pNode] = NULL /\ height[pNode] = 1

\* The tree holds 10 alone.
Example1 ==
    root = NodeOfKey(10) /\ IsLeaf(root)

\* The tree holds 10 with right child 20.
Example2 ==
    /\ root = NodeOfKey(10)
    /\ height[root] = 2
    /\ left[root] = NULL
    /\ right[root] = NodeOfKey(20)
    /\ IsLeaf(right[root])

\* The tree holds 20 with the leaves 10 and 30.
Example3 ==
    /\ root = NodeOfKey(20)
    /\ height[root] = 2
    /\ left[root] = NodeOfKey(10)
    /\ right[root] = NodeOfKey(30)
    /\ IsLeaf(left[root])
    /\ IsLeaf(right[root])

\* C16: inserting 10, 20, 30 in that order into an empty tree performs no
\* rotation in the first two inserts and exactly one rotation, a single one,
\* in the third; the tree then has root 20 of height 2 with the leaves 10
\* and 30 of height 1, and an in-order walk of it yields 10, 20, 30.
C16_RotationExample ==
    [][/\ (root = NULL /\ Insert(RootSlot, NodeOfKey(10)))
          => /\ InsertRotations(Mem, RootSlot, NodeOfKey(10)) = <<>>
             /\ ret' = OK
             /\ Example1'
       /\ (Example1 /\ Insert(RootSlot, NodeOfKey(20)))
          => /\ InsertRotations(Mem, RootSlot, NodeOfKey(20)) = <<>>
             /\ ret' = OK
             /\ Example2'
       /\ (Example2 /\ Insert(RootSlot, NodeOfKey(30)))
          => /\ InsertRotations(Mem, RootSlot, NodeOfKey(30)) = <<"RR">>
             /\ ret' = OK
             /\ Example3'
       /\ (Example3 /\ TreeWalk([NoCallbacks EXCEPT !.in = TRUE]))
          => /\ ret' = OK
             /\ visits' = << <<"in", NodeOfKey(10)>>, <<"in", NodeOfKey(20)>>,
                             <<"in", NodeOfKey(30)>> >>]_vars

\* The tree built by the three inserts has been walked in order.
C16_Witness ==
    /\ Example3
    /\ call.op = "walk"
    /\ callbacks = [NoCallbacks EXCEPT !.in = TRUE]
    /\ Len(visits) = 3

\* C17: a call of avlUintDelete that returns NULL, and a call of
\* avlUintInsert that returns ERROR for a null argument or because the
\* descent used up the ancestor list, leave the root slot and the left, right
\* and height fields of every node as they were before the call.
C17_FailureChangesNothing ==
    [][(\/ /\ call'.op = "delete"
           /\ Delete(call'.pRoot, call'.key)
           /\ ret' = NULL
        \/ /\ call'.op = "insert"
           /\ Insert(call'.pRoot, call'.node)
           /\ ret' = ERROR
           /\ branch' \in {"null", "full"})
       => /\ root' = root
          /\ left' = left
          /\ right' = right
          /\ height' = height]_vars

\* avlUintInsert has returned ERROR because the descent used up the ancestor
\* list, on a tree of four nodes or more.
C17_Witness ==
    /\ call.op = "insert"
    /\ ret = ERROR
    /\ branch = "full"
    /\ Cardinality(TreeNodes) >= 4

\* The least number of nodes of a height-balanced tree of height h.
RECURSIVE MinNodes(_)
MinNodes(h) ==
    IF h = 0 THEN 0 ELSE IF h = 1 THEN 1 ELSE MinNodes(h - 1) + MinNodes(h - 2) + 1

\* C18: AVLU_MAX_HEIGHT is sufficient for 2^AVLU_MAX_HEIGHT nodes: the least
\* number of nodes of a height-balanced tree of height AVLU_MAX_HEIGHT is more
\* than 2^AVLU_MAX_HEIGHT, no tree of at most 2^AVLU_MAX_HEIGHT nodes has a
\* node on level AVLU_MAX_HEIGHT or deeper, and avlUintInsert does not fail
\* for capacity on such a tree.
C18_MaxHeightSufficient ==
    /\ Cardinality(TreeNodes) <= 2^AVLU_MAX_HEIGHT
       => /\ SubtreeHeight(root) < AVLU_MAX_HEIGHT
          /\ ~(call.op = "insert" /\ branch = "full")
    /\ SubtreeHeight(root) >= AVLU_MAX_HEIGHT
       => MinNodes(AVLU_MAX_HEIGHT) > 2^AVLU_MAX_HEIGHT

\* The slots of the tree that hold pNode: the root slot and the child slots
\* of the nodes reachable from the root.
SlotsHolding(pNode) ==
    {pp \in {RootSlot} \cup {LeftSlot(p) : p \in TreeNodes}
                       \cup {RightSlot(p) : p \in TreeNodes} :
        Load(Mem, pp) = pNode}

\* C19: the structure reachable from the root is a tree: every reachable
\* node is held by exactly one slot (the root slot or one child slot), no
\* node is its own descendant, and no two reachable nodes carry the same key.
C19_SingleOwnership ==
    \A n \in TreeNodes :
        /\ Cardinality(SlotsHolding(n)) = 1
        /\ n \notin Subtree(Mem, left[n]) \cup Subtree(Mem, right[n])
        /\ \A o \in TreeNodes : key[o] = key[n] => o = n

\* avlUintDelete has promoted the predecessor of the deleted key into the
\* place of the deleted node, where it has two children.
C19_Witness ==
    /\ call.op = "delete"
    /\ branch = "promote"
    /\ Cardinality(TreeNodes) >= 3
    /\ \E n \in TreeNodes :
           /\ key[n] < call.key
           /\ left[n] # NULL /\ right[n] # NULL
           /\ \A o \in TreeNodes : ~(key[n] < key[o] /\ key[o] < call.key)

\* The nodes a search for k passes from pNode down, until it meets k or an
\* empty slot: their number, and whether k was met.
RECURSIVE PathTo(_, _, _)
PathTo(m, pNode, k) ==
    IF pNode = NULL
    THEN [visited |-> 0, met |-> FALSE]
    ELSE IF key[pNode] = k
    THEN [visited |-> 1, met |-> TRUE]
    ELSE LET below == PathTo(m, IF k < key[pNode] THEN m.left[pNode]
                                                  ELSE m.right[pNode], k)
         IN  [visited |-> below.visited + 1, met |-> below.met]

\* C20: no node of a reachable tree lies deeper than AVLU_MAX_HEIGHT levels,
\* the root being on level 1.  avlUintInsert returns ERROR and does not
\* attach the node exactly when its descent passes AVLU_MAX_HEIGHT nodes
\* without meeting the key; when it passes fewer without meeting the key it
\* returns OK and the node is in the tree.
C20_HeightBound ==
    [][/\ SubtreeHeight(root) <= AVLU_MAX_HEIGHT
       /\ SubtreeHeight(root)' <= AVLU_MAX_HEIGHT
       /\ (/\ call'.op = "insert"
           /\ call'.pRoot = RootSlot
           /\ call'.node # NULL
           /\ Insert(RootSlot, call'.node))
          => LET path == PathTo(Mem, root, call'.key)
             IN  /\ (~path.met /\ path.visited >= AVLU_MAX_HEIGHT)
                    <=> (ret' = ERROR /\ branch' = "full")
                 /\ (~path.met /\ path.visited >= AVLU_MAX_HEIGHT)
                    => /\ call'.node \notin TreeNodes'
                       /\ TreeNodes' = TreeNodes
                 /\ (~path.met /\ path.visited < AVLU_MAX_HEIGHT)
                    => /\ ret' = OK
                       /\ call'.node \in TreeNodes'
                       /\ TreeNodes' = TreeNodes \cup {call'.node}]_vars

\* avlUintInsert has attached a node on level AVLU_MAX_HEIGHT: its descent
\* passed AVLU_MAX_HEIGHT - 1 nodes.
C20_Witness ==
    /\ call.op = "insert"
    /\ ret = OK
    /\ SubtreeHeight(root) = AVLU_MAX_HEIGHT
    /\ PathTo(Mem, root, call.key).visited = AVLU_MAX_HEIGHT

(* --------------------------- foreign structures ----------------------- *)

\* The indices at which avlUintInsert (pRoot, pNewNode) reads or writes
\* ancestor[]: the descent writes ancestor[ancestorCount++] from 0 on, and
\* avlUintRebalance reads ancestors[--count] down from the count it is given.
InsertAncestorIndices(m, pRoot, pNewNode) ==
    IF pNewNode = NULL \/ pRoot = NullHandle
    THEN {}
    ELSE LET d == InsertDescend(m, key[pNewNode], pRoot, EmptyAncestor, 0)
         IN  0..(d.ancestorCount - 1)

\* The indices at which avlUintDelete (pRoot, k) reads or writes ancestor[]:
\* those of the two descents, the write of ancestor[deleteAncestorCount]
\* after the splice, and the reads of avlUintRebalance.
DeleteAncestorIndices(m, pRoot, k) ==
    IF pRoot = NullHandle
    THEN {}
    ELSE LET d == DeleteDescend(m, k, pRoot, NULL, EmptyAncestor, 0)
         IN  IF d.absent \/ d.ancestorCount = AVLU_MAX_HEIGHT
                \/ m.left[d.pNode] = NULL
             THEN 0..(d.ancestorCount - 1)
             ELSE LET p == PredecessorDescend(m, LeftSlot(d.pNode), d.pNode,
                                              d.ancestor, d.ancestorCount)
                  IN  IF p.ancestorCount = AVLU_MAX_HEIGHT
                      THEN 0..(p.ancestorCount - 1)
                      ELSE 0..(p.ancestorCount - 1) \cup {d.ancestorCount}

\* The largest number of nodes of a structure handed to the library: one
\* more than the node stack of the 32-bit build holds.
ForeignMax == 2 * MaxHeight32 + 1

\* The empty slot a plain search for k ends at, from slot pp down.
RECURSIVE EmptySlotFor(_, _, _)
EmptySlotFor(m, pp, k) ==
    LET p == Load(m, pp)
    IN  IF p = NULL THEN pp ELSE EmptySlotFor(m, ChildSlot(k, p), k)

\* Code other than the library links pNode into the search tree where its
\* key belongs, without rebalancing, and keeps the height fields true: the
\* tree can take any shape and grow higher than AVLU_MAX_HEIGHT.
Link(pNode) ==
    /\ call.op \in {"none", "link"}
    /\ pNode \in 1..ForeignMax
    /\ pNode \notin Subtree(Mem, root)
    /\ LET m1 == Store(Mem, EmptySlotFor(Mem, RootSlot, key[pNode]), pNode)
           m2 == [m1 EXCEPT !.height =
                     [n \in Node |->
                         IF n \in Subtree(m1, m1.root)
                         THEN TrueHeight(m1, n, Cardinality(Node) + 1)
                         ELSE m1.height[n]]]
       IN  SetMem(m2)
    /\ call' = [op |-> "link", pRoot |-> RootSlot, node |-> NULL, key |-> 0]
    /\ ret' = OK
    /\ branch' = "none"
    /\ callbacks' = NoCallbacks
    /\ visits' = <<>>
    /\ UNCHANGED <<lp64, key, inserted, deleted>>

\* One call of the library on a structure it did not build.
ForeignNext ==
    \/ \E pNode \in Node : Link(pNode)
    \/ \E pNewNode \in Node :
           call.op \in {"none", "link"} /\ Insert(RootSlot, pNewNode)
    \/ \E n \in Node :
           call.op \in {"none", "link"} /\ Delete(RootSlot, key[n])
    \/ \E cbs \in {c \in Callbacks : c.failKind = "none"} :
           call.op \in {"none", "link"} /\ TreeWalk(cbs)

SpecForeign == ExampleInit /\ [][ForeignNext]_vars

\* C21: in every call of avlUintInsert, avlUintDelete and the iterative
\* avlUintTreeWalk, on trees of any shape and height, every index at which
\* ancestor[] is read or written lies in 0..AVLU_MAX_HEIGHT-1, the write of
\* ancestor[deleteAncestorCount] included, and every index at which
\* nodeStack[] is read or written lies in 0..2*AVLU_MAX_HEIGHT-1.
C21_BuffersInBounds ==
    [][/\ (call'.op = "insert" /\ Insert(call'.pRoot, call'.node))
          => InsertAncestorIndices(Mem, call'.pRoot, call'.node)
                 \subseteq 0..(AVLU_MAX_HEIGHT - 1)
       /\ (call'.op = "delete" /\ Delete(call'.pRoot, call'.key))
          => DeleteAncestorIndices(Mem, call'.pRoot, call'.key)
                 \subseteq 0..(AVLU_MAX_HEIGHT - 1)
       /\ (call'.op = "walk" /\ TreeWalk(callbacks'))
          => avlUintTreeWalk(Mem, root, callbacks').used
                 \subseteq 0..(2 * AVLU_MAX_HEIGHT - 1)]_vars

\* A walk has given up at the stack test of its first pass, on a tree with a
\* left spine longer than the node stack.
C21_Witness ==
    /\ call.op = "walk"
    /\ ret = ERROR
    /\ branch = "full"
    /\ callbacks.in /\ ~callbacks.post
    /\ SubtreeHeight(root) > 2 * AVLU_MAX_HEIGHT

\* Every iteration of a run of avlUintRebalance finds a node in its ancestor
\* slot, dereferences no NULL pointer, and sees a height difference of at
\* most 2 in absolute value.
RebalanceSound(steps) ==
    \A i \in 1..Len(steps) :
        /\ steps[i].pNode # NULL
        /\ NULL \notin steps[i].deref
        /\ steps[i].diff \in -2..2

\* C22: in every run of avlUintRebalance that avlUintInsert or avlUintDelete
\* start on a tree built by the library, every ancestor slot holds a node,
\* no NULL pointer is dereferenced (leftp in the left-heavy branch,
\* leftrightp in the left-right rotation, and their mirror images), and no
\* height difference larger than 2 in absolute value is seen.
C22_RebalanceCannotFail ==
    [][/\ (call'.op = "insert" /\ Insert(call'.pRoot, call'.node))
          => RebalanceSound(InsertRebalanceSteps(Mem, call'.pRoot, call'.node))
       /\ (call'.op = "delete" /\ Delete(call'.pRoot, call'.key))
          => RebalanceSound(DeleteRebalanceSteps(Mem, call'.pRoot, call'.key))]_vars

\* avlUintInsert has made a double rotation: the node it attached as a leaf
\* is now the root of a subtree.
C22_Witness ==
    /\ call.op = "insert"
    /\ ret = OK
    /\ left[call.node] # NULL
    /\ right[call.node] # NULL

\* The iterations of steps that took a rotation branch.
RotationSteps(steps) ==
    {i \in 1..Len(steps) : steps[i].kind \in {"LL", "LR", "RR", "RL"}}

\* C23: in a successful avlUintInsert, avlUintRebalance takes a rotation
\* branch at no more than one ancestor; right after the rotation the rotated
\* subtree has the height it had before the insertion; the loop ends at the
\* next ancestor, if there is one, through the height-unchanged exit, and the
\* memory the call leaves is the memory the rotation left.
C23_OneRotationPerInsert ==
    [][(/\ call'.op = "insert"
        /\ Insert(call'.pRoot, call'.node)
        /\ ret' = OK)
       => LET steps == InsertRebalanceSteps(Mem, call'.pRoot, call'.node)
          IN  /\ Cardinality(RotationSteps(steps)) <= 1
              /\ \A i \in RotationSteps(steps) :
                     LET pp    == steps[i].ppNode
                         after == steps[i].mem
                     IN  /\ HeightOf(after, Load(after, pp))
                            = HeightOf(Mem, Load(Mem, pp))
                         /\ TrueHeight(after, Load(after, pp),
                                       Cardinality(Node) + 1)
                            = TrueHeight(Mem, Load(Mem, pp),
                                         Cardinality(Node) + 1)
                         /\ i < Len(steps)
                            => /\ Len(steps) = i + 1
                               /\ steps[i + 1].kind = "stop"
                         /\ root' = after.root
                         /\ left' = after.left
                         /\ right' = after.right
                         /\ height' = after.height]_vars

\* avlUintInsert has made a double rotation below the root: the node it
\* attached is now the root of a subtree, with an ancestor above it.
C23_Witness ==
    /\ call.op = "insert"
    /\ ret = OK
    /\ call.node # root
    /\ left[call.node] # NULL
    /\ right[call.node] # NULL
    /\ call.node \in TreeNodes

\* C24: no operation writes the key of a node; the nodes of the tree are
\* those handed to a successful avlUintInsert and not yet returned by
\* avlUintDelete, which returns the very node of the tree that carries the
\* key; and avlUintSearch for the key of a node of the tree finds that node.
C24_NodeIdentity ==
    [][/\ key' = key
       /\ (call'.op = "insert" /\ Insert(call'.pRoot, call'.node) /\ ret' = OK)
          => TreeNodes' = TreeNodes \cup {call'.node}
       /\ (call'.op = "insert" /\ Insert(call'.pRoot, call'.node)
             /\ ret' = ERROR)
          => TreeNodes' = TreeNodes
       /\ (call'.op = "delete" /\ Delete(call'.pRoot, call'.key))
          => IF ret' = NULL
             THEN TreeNodes' = TreeNodes
             ELSE /\ ret' \in TreeNodes
                  /\ key[ret'] = call'.key
                  /\ TreeNodes' = TreeNodes \ {ret'}
       /\ call'.op \notin {"insert", "delete"} => TreeNodes' = TreeNodes
       /\ \A n \in TreeNodes' :
              avlUintSearch(Mem', root', key'[n]) = n]_vars

\* avlUintDelete has promoted a predecessor and returned the second of two
\* caller records with the same key, and the promoted node, itself the second
\* record of its key, is in the tree with the right subtree of the deleted
\* node.
C24_Witness ==
    /\ call.op = "delete"
    /\ branch = "promote"
    /\ ret > KeyMax + 1
    /\ key[ret] = call.key
    /\ \E n \in TreeNodes : n > KeyMax + 1 /\ right[n] # NULL

(* ------------------------- overwriting callbacks ---------------------- *)

\* A caller that inserts and deletes and, in the end, walks the tree with an
\* in-order routine that overwrites the nodes; it does not use the tree
\* again after that walk.
OverwriteNext ==
    \/ \E pNewNode \in Node : ~callbacks.overwrite /\ Insert(RootSlot, pNewNode)
    \/ \E k \in Key : ~callbacks.overwrite /\ Delete(RootSlot, k)
    \/ \E cbs \in OverwritingCallbacks : ~callbacks.overwrite /\ TreeWalk(cbs)

SpecOverwrite == Init /\ [][OverwriteNext]_vars

\* C25: the first pass of the iterative walk reads neither the left nor the
\* right field of a node once the in-order routine has been invoked on it;
\* and a walk with nothing but an in-order routine that overwrites the left,
\* right and height fields of the node it is given returns OK and has
\* invoked the routine exactly once on every node of the tree as it was
\* before the walk, in strictly ascending key order.
C25_NoReferenceAfterInOrder ==
    [][(call'.op = "walk" /\ TreeWalk(callbacks'))
       => LET w == avlUintTreeWalk(Mem, root, callbacks')
              l == SelectSeq(w.log, LAMBDA e : e[1] = "in")
              s == [i \in 1..Len(l) |-> l[i][2]]
          IN  /\ w.late = {}
              /\ (callbacks'.overwrite /\ callbacks'.in /\ ~callbacks'.pre
                    /\ ~callbacks'.post)
                 => /\ ret' = OK
                    /\ visits' = w.log
                    /\ OncePerNode(s)
                    /\ \A i \in 1..Len(s) : \A j \in 1..Len(s) :
                           i < j => key[s[i]] < key[s[j]]
                    /\ \A n \in TreeNodes :
                           /\ left'[n] = callbacks'.fill
                           /\ right'[n] = callbacks'.fill
                           /\ height'[n] = callbacks'.fill]_vars

\* A walk of a tree of five nodes whose in-order routine has filled every
\* node with the address of the root has returned OK after five invocations.
C25_Witness ==
    /\ call.op = "walk"
    /\ callbacks.overwrite
    /\ callbacks.fill = root
    /\ root # NULL
    /\ ret = OK
    /\ Len(visits) = 5
    /\ \A i \in 1..5 : left[visits[i][2]] = root /\ right[visits[i][2]] = root

====
